---------------------------- MODULE Spec2Model ----------------------------
(***************************************************************************)
(* The compass component of where-is-backyard-builder.                     *)
(*                                                                         *)
(* The repository holds two versions of the component:                     *)
(*   src/src/components/Compass.vue  (component = "Compass")               *)
(*   src/unnamed/part_000            (component = "part_000")              *)
(* A session mounts one of them; Init chooses which, and the platform      *)
(* (geolocation present or not, orientation permission required or not).   *)
(*                                                                         *)
(* JavaScript runs every callback to completion and runs pending           *)
(* microtasks (promise continuations) before the next callback, so each    *)
(* handler is one action and a pending continuation of the async init of   *)
(* Compass.vue blocks every other action until it has run.                 *)
(*                                                                         *)
(* Angles are whole degrees, coordinates whole microdegrees.  Math.atan2   *)
(* and the haversine distance are tabulated at the sample positions.       *)
(* An optional value (T | undefined, T | null) is <<>> or <<v>>.           *)
(* The debug output of print and dump (Compass.vue 7-21) is not state of   *)
(* the component and is left out.                                          *)
(***************************************************************************)
EXTENDS Integers, Sequences, FiniteSets, TLC

VARIABLES
    component,        \* which version of the component is mounted
    geolocation,      \* navigator.geolocation is present
    requestPermission,\* DeviceOrientationEvent.requestPermission is a function
    initialized,      \* ref initialized (Compass.vue)
    activations,      \* number of calls of init
    initPc,           \* position of the async init of Compass.vue
    _lat, _lon,       \* user coordinates
    name, distance,   \* text values
    compassAvailable, arrowRotation,
    listener,         \* updateOrientation is registered for deviceorientation
    event,            \* the event of the latest run of updateOrientation
    gcpPending,       \* getCurrentPosition requests not yet answered
    watches,          \* watchPosition subscriptions opened
    permPending,      \* requestPermission promises not yet settled
    nGetCurrent,      \* calls of getCurrentPosition so far
    nPermReq,         \* calls of requestPermission so far
    nAddListener,     \* calls of addEventListener so far
    rawAtan, rawHeading, computed   \* inputs and result of the geometry alone

vars == <<component, geolocation, requestPermission, initialized, activations,
          initPc, _lat, _lon, name, distance, compassAvailable, arrowRotation,
          listener, event, gcpPending, watches, permPending, nGetCurrent,
          nPermReq, nAddListener, rawAtan, rawHeading, computed>>

geometryVars == <<rawAtan, rawHeading, computed>>

componentVars == <<component, geolocation, requestPermission, initialized,
          activations, initPc, _lat, _lon, name, distance, compassAvailable,
          arrowRotation, listener, event, gcpPending, watches, permPending,
          nGetCurrent, nPermReq, nAddListener>>

----------------------------------------------------------------------------
(* Bounds *)

\* init calls modelled per session (part_000 has no guard against a second click)
MaxActivations == 2

----------------------------------------------------------------------------
(* Values *)

None == <<>>
Some(v) == <<v>>

\* Backyard Builder coordinates, in microdegrees
bbLat == 37551447
bbLon == 127047016

\* Observer positions the platform delivers: the anchor point of the
\* distance regression, the target itself and a point north-east of the
\* target.
Positions ==
    { <<37500000, 127000000>>, <<bbLat, bbLon>>, <<38000000, 128000000>> }

\* Headings a sensor reports: inside [0,360) and, unnormalized, outside it.
NormalHeadings == {0, 270}
Headings == NormalHeadings \cup {720}

\* DeviceOrientationEvent: alpha is number | null, webkitCompassHeading is
\* present only on WebKit.
Events ==
    [ absolute : BOOLEAN,
      alpha : {None} \cup {Some(h) : h \in Headings},
      webkitCompassHeading : {None} \cup {Some(h) : h \in NormalHeadings} ]

\* GeolocationPositionError.message; the empty message is falsy in fail.
Messages == {"", "User denied Geolocation"}

DefaultName == "Backyard Builder"
FailName == "Could not get your current location"
Hint == "Try adding this app to your homescreen."

----------------------------------------------------------------------------
(* Great-circle geometry *)

\* Math.atan2(y, x) * 180 / Math.PI of the forward azimuth, in whole degrees
atan2Deg(lat, lon) ==
    CASE <<lat, lon>> = <<37500000, 127000000>> -> 36
      [] <<lat, lon>> = <<bbLat, bbLon>> -> 0
      [] <<lat, lon>> = <<38000000, 128000000>> -> -120

\* dst.toFixed(0) of the haversine distance, in km
dstFixed(lat, lon) ==
    CASE <<lat, lon>> = <<37500000, 127000000>> -> 7
      [] <<lat, lon>> = <<bbLat, bbLon>> -> 0
      [] <<lat, lon>> = <<38000000, 128000000>> -> 97

\* The % of JavaScript: the remainder has the sign of the dividend
JsRem(x, m) == IF x >= 0 THEN x % m ELSE -((-x) % m)

\* Mutant of normBearing: step 3 ends at the conversion to degrees
normBearing_raw(raw) == raw

\* bearingFromNorth = (bearingFromNorth + 360) % 360
normBearing(raw) == JsRem(raw + 360, 360)

bearingFromNorth(lat, lon) == normBearing(atan2Deg(lat, lon))

\* Mutant of relativeBearing: the wrap upwards is missing
relativeBearing_noWrapUp(bearing, alpha) ==
    LET r0 == bearing - alpha
    IN  IF r0 > 180 THEN r0 - 360 ELSE r0

\* Steps 4 and 5: subtract the heading, one conditional wrap each way
relativeBearing(bearing, alpha) ==
    LET r0 == bearing - alpha
        r1 == IF r0 > 180 THEN r0 - 360 ELSE r0
        r2 == IF r1 < -180 THEN r1 + 360 ELSE r1
    IN  r2

----------------------------------------------------------------------------
(* Text values *)

\* `${dst.toFixed(0)} km`
kmText(n) == <<"km", n, "">>

\* msg ? `${msg}. Try adding this app to your homescreen.` : 'Try adding ...'
failText(msg) ==
    <<"fail", 0, IF msg = None \/ msg = Some("") THEN Hint ELSE msg[1] \o ". " \o Hint>>

NoText == <<"", 0, "">>

fail(msg) ==
    /\ name' = FailName
    /\ distance' = failText(msg)

\* Mutant of updateDistance: the new distance is added to the one shown
\* (+= for =)
updateDistance_accumulates ==
    IF _lat' = None \/ _lon' = None
    THEN UNCHANGED distance
    ELSE distance' = kmText(distance[2] + dstFixed(_lat'[1], _lon'[1]))

\* updateDistance, called right after _lat and _lon were assigned
updateDistance ==
    IF _lat' = None \/ _lon' = None
    THEN UNCHANGED distance
    ELSE distance' = kmText(dstFixed(_lat'[1], _lon'[1]))

\* the body of both position callbacks
storePosition(p) ==
    /\ _lat' = Some(p[1])
    /\ _lon' = Some(p[2])
    /\ updateDistance

----------------------------------------------------------------------------
(* Orientation handling *)

\* if (event.webkitCompassHeading): a truthiness test, 0 and undefined fail it
truthy(w) == w # None /\ w[1] # 0

\* Mutant of alphaOf: the two tests as an if / else if, compass heading first
alphaOf_compassFirst(e) ==
    IF truthy(e.webkitCompassHeading) THEN e.webkitCompassHeading
    ELSE IF e.absolute /\ e.alpha # None THEN e.alpha ELSE None

\* The value of _alpha after the two tests of Compass.vue: the second
\* assignment, when its test passes, overwrites the first.
alphaOf(e) ==
    LET a1 == IF truthy(e.webkitCompassHeading)
              THEN e.webkitCompassHeading ELSE None
    IN  IF e.absolute /\ e.alpha # None THEN e.alpha ELSE a1

\* part_000 reads event.alpha alone: if (!event.absolute || event.alpha === null)
p0_alphaOf(e) ==
    IF ~e.absolute \/ e.alpha = None THEN None ELSE e.alpha

\* Mutant of orientationBody: step 0.5 (mark the compass as available) moved
\* before step 0 (the location test)
orientationBody_markEarly(a) ==
    /\ IF a = None
       THEN /\ compassAvailable' = FALSE
            /\ listener' = FALSE
            /\ UNCHANGED arrowRotation
       ELSE /\ compassAvailable' = TRUE
            /\ UNCHANGED listener
            /\ IF _lat = None \/ _lon = None
               THEN UNCHANGED arrowRotation
               ELSE arrowRotation' =
                      relativeBearing(bearingFromNorth(_lat[1], _lon[1]), a[1])
    /\ UNCHANGED <<component, geolocation, requestPermission, initialized,
                   activations, initPc, _lat, _lon, name, distance, gcpPending,
                   watches, permPending, nGetCurrent, nPermReq, nAddListener>>

\* Mutant of orientationBody: the degraded branch does not remove the listener
orientationBody_keepListener(a) ==
    /\ IF a = None
       THEN /\ compassAvailable' = FALSE
            /\ UNCHANGED <<listener, arrowRotation>>
       ELSE IF _lat = None \/ _lon = None
       THEN UNCHANGED <<compassAvailable, listener, arrowRotation>>
       ELSE /\ compassAvailable' = TRUE
            /\ arrowRotation' =
                  relativeBearing(bearingFromNorth(_lat[1], _lon[1]), a[1])
            /\ UNCHANGED listener
    /\ UNCHANGED <<component, geolocation, requestPermission, initialized,
                   activations, initPc, _lat, _lon, name, distance, gcpPending,
                   watches, permPending, nGetCurrent, nPermReq, nAddListener>>

\* Mutant of orientationBody: the rotation is written only while the compass
\* is not yet marked available
orientationBody_staleRotation(a) ==
    /\ IF a = None
       THEN /\ compassAvailable' = FALSE
            /\ listener' = FALSE
            /\ UNCHANGED arrowRotation
       ELSE IF _lat = None \/ _lon = None
       THEN UNCHANGED <<compassAvailable, listener, arrowRotation>>
       ELSE /\ compassAvailable' = TRUE
            /\ arrowRotation' =
                  IF compassAvailable THEN arrowRotation
                  ELSE relativeBearing(bearingFromNorth(_lat[1], _lon[1]), a[1])
            /\ UNCHANGED listener
    /\ UNCHANGED <<component, geolocation, requestPermission, initialized,
                   activations, initPc, _lat, _lon, name, distance, gcpPending,
                   watches, permPending, nGetCurrent, nPermReq, nAddListener>>

\* Mutant of orientationBody: the degraded branch also resets the rotation
orientationBody_resetsRotation(a) ==
    /\ IF a = None
       THEN /\ compassAvailable' = FALSE
            /\ listener' = FALSE
            /\ arrowRotation' = 0
       ELSE IF _lat = None \/ _lon = None
       THEN UNCHANGED <<compassAvailable, listener, arrowRotation>>
       ELSE /\ compassAvailable' = TRUE
            /\ arrowRotation' =
                  relativeBearing(bearingFromNorth(_lat[1], _lon[1]), a[1])
            /\ UNCHANGED listener
    /\ UNCHANGED <<component, geolocation, requestPermission, initialized,
                   activations, initPc, _lat, _lon, name, distance, gcpPending,
                   watches, permPending, nGetCurrent, nPermReq, nAddListener>>

\* The body of updateOrientation after the heading a was chosen; both
\* versions agree from here on.
orientationBody(a) ==
    /\ IF a = None
       THEN /\ compassAvailable' = FALSE
            /\ listener' = FALSE
            /\ UNCHANGED arrowRotation
       ELSE IF _lat = None \/ _lon = None
       THEN UNCHANGED <<compassAvailable, listener, arrowRotation>>
       ELSE /\ compassAvailable' = TRUE
            /\ arrowRotation' =
                  relativeBearing(bearingFromNorth(_lat[1], _lon[1]), a[1])
            /\ UNCHANGED listener
    /\ UNCHANGED <<component, geolocation, requestPermission, initialized,
                   activations, initPc, _lat, _lon, name, distance, gcpPending,
                   watches, permPending, nGetCurrent, nPermReq, nAddListener>>

updateOrientation(e) == orientationBody(alphaOf(e))

p0_updateOrientation(e) == orientationBody(p0_alphaOf(e))

----------------------------------------------------------------------------
(* Scheduling *)

\* No continuation of init is waiting as a microtask
MicrotaskIdle == initPc \notin {"resolved", "rejected"}

IsCompass == component = "Compass"

----------------------------------------------------------------------------
(* Initialization *)

\* startOrientationTracking up to its first suspension; pcAsk and pcOpen are
\* where init of Compass.vue stands afterwards
startOrientationTracking(pcAsk, pcOpen) ==
    IF requestPermission
    THEN /\ permPending' = permPending + 1
         /\ nPermReq' = nPermReq + 1
         /\ initPc' = pcAsk
         /\ UNCHANGED <<listener, nAddListener>>
    ELSE /\ listener' = TRUE
         /\ nAddListener' = nAddListener + 1
         /\ initPc' = pcOpen
         /\ UNCHANGED <<permPending, nPermReq>>

\* Mutant of init: watchPosition is called beside getCurrentPosition, not in
\* its success callback
init_watchAtStart ==
    /\ IsCompass
    /\ ~initialized
    /\ initialized' = TRUE
    /\ activations' = activations + 1
    /\ IF ~geolocation
       THEN /\ fail(None)
            /\ initPc' = "rejected"
            /\ UNCHANGED <<gcpPending, nGetCurrent, watches>>
       ELSE /\ gcpPending' = gcpPending + 1
            /\ nGetCurrent' = nGetCurrent + 1
            /\ watches' = watches + 1
            /\ initPc' = "awaitGeo"
            /\ UNCHANGED <<name, distance>>
    /\ UNCHANGED <<component, geolocation, requestPermission, _lat, _lon,
                   compassAvailable, arrowRotation, listener, event,
                   permPending, nPermReq, nAddListener>>

\* init of Compass.vue up to its first await; the link that calls it is
\* hidden once initialized is set
init ==
    /\ IsCompass
    /\ ~initialized
    /\ initialized' = TRUE
    /\ activations' = activations + 1
    /\ IF ~geolocation
       THEN /\ fail(None)
            /\ initPc' = "rejected"
            /\ UNCHANGED <<gcpPending, nGetCurrent>>
       ELSE /\ gcpPending' = gcpPending + 1
            /\ nGetCurrent' = nGetCurrent + 1
            /\ initPc' = "awaitGeo"
            /\ UNCHANGED <<name, distance>>
    /\ UNCHANGED <<component, geolocation, requestPermission, _lat, _lon,
                   compassAvailable, arrowRotation, listener, event, watches,
                   permPending, nPermReq, nAddListener>>

\* await initGeolocation() has resolved: init goes on to
\* await startOrientationTracking()
initResume ==
    /\ IsCompass
    /\ initPc = "resolved"
    /\ startOrientationTracking("awaitOrient", "done")
    /\ UNCHANGED <<component, geolocation, requestPermission, initialized,
                   activations, _lat, _lon, name, distance, compassAvailable,
                   arrowRotation, event, gcpPending, watches, nGetCurrent>>

\* an awaited promise was rejected: the catch block of init, then init ends
initCatch ==
    /\ IsCompass
    /\ initPc = "rejected"
    /\ initPc' = "caught"
    /\ UNCHANGED <<component, geolocation, requestPermission, initialized,
                   activations, _lat, _lon, name, distance, compassAvailable,
                   arrowRotation, listener, event, gcpPending, watches,
                   permPending, nGetCurrent, nPermReq, nAddListener>>

\* init of part_000: both acquisitions are started in the same call
p0_init ==
    /\ ~IsCompass
    /\ activations < MaxActivations
    /\ activations' = activations + 1
    /\ IF ~geolocation
       THEN /\ fail(None)
            /\ UNCHANGED <<gcpPending, nGetCurrent, watches>>
       ELSE /\ gcpPending' = gcpPending + 1
            /\ nGetCurrent' = nGetCurrent + 1
            /\ watches' = watches + 1
            /\ UNCHANGED <<name, distance>>
    /\ startOrientationTracking("idle", "idle")
    /\ UNCHANGED <<component, geolocation, requestPermission, initialized,
                   _lat, _lon, compassAvailable, arrowRotation, event>>

----------------------------------------------------------------------------
(* Position callbacks *)

\* success callback of getCurrentPosition
firstFix(p) ==
    /\ MicrotaskIdle
    /\ gcpPending > 0
    /\ gcpPending' = gcpPending - 1
    /\ storePosition(p)
    /\ IF IsCompass
       THEN /\ initPc' = "resolved"
            /\ watches' = watches + 1
       ELSE UNCHANGED <<initPc, watches>>
    /\ UNCHANGED <<component, geolocation, requestPermission, initialized,
                   activations, name, compassAvailable, arrowRotation, listener,
                   event, permPending, nGetCurrent, nPermReq, nAddListener>>

\* error callback of getCurrentPosition
firstFixError(msg) ==
    /\ MicrotaskIdle
    /\ gcpPending > 0
    /\ gcpPending' = gcpPending - 1
    /\ fail(Some(msg))
    /\ initPc' = IF IsCompass THEN "rejected" ELSE initPc
    /\ UNCHANGED <<component, geolocation, requestPermission, initialized,
                   activations, _lat, _lon, compassAvailable, arrowRotation,
                   listener, event, watches, permPending, nGetCurrent,
                   nPermReq, nAddListener>>

\* success callback of watchPosition; the subscription is never cleared
watchUpdate(p) ==
    /\ MicrotaskIdle
    /\ watches > 0
    /\ storePosition(p)
    /\ UNCHANGED <<component, geolocation, requestPermission, initialized,
                   activations, initPc, name, compassAvailable, arrowRotation,
                   listener, event, gcpPending, watches, permPending,
                   nGetCurrent, nPermReq, nAddListener>>

\* error callback of watchPosition; an error does not end the subscription
watchError(msg) ==
    /\ MicrotaskIdle
    /\ watches > 0
    /\ fail(Some(msg))
    /\ UNCHANGED <<component, geolocation, requestPermission, initialized,
                   activations, initPc, _lat, _lon, compassAvailable,
                   arrowRotation, listener, event, gcpPending, watches,
                   permPending, nGetCurrent, nPermReq, nAddListener>>

----------------------------------------------------------------------------
(* Orientation callbacks *)

\* requestPermission() resolved with 'granted'
permissionGranted ==
    /\ MicrotaskIdle
    /\ permPending > 0
    /\ permPending' = permPending - 1
    /\ listener' = TRUE
    /\ nAddListener' = nAddListener + 1
    /\ initPc' = IF IsCompass THEN "done" ELSE initPc
    /\ UNCHANGED <<component, geolocation, requestPermission, initialized,
                   activations, _lat, _lon, name, distance, compassAvailable,
                   arrowRotation, event, gcpPending, watches, nGetCurrent,
                   nPermReq>>

\* requestPermission() resolved with another state, or was rejected
permissionRefused ==
    /\ MicrotaskIdle
    /\ permPending > 0
    /\ permPending' = permPending - 1
    /\ initPc' = IF IsCompass THEN "rejected" ELSE initPc
    /\ UNCHANGED <<component, geolocation, requestPermission, initialized,
                   activations, _lat, _lon, name, distance, compassAvailable,
                   arrowRotation, listener, event, gcpPending, watches,
                   nGetCurrent, nPermReq, nAddListener>>

\* a deviceorientation event is dispatched to the registered listener
orientationEvent(e) ==
    /\ MicrotaskIdle
    /\ listener
    /\ event' = Some(e)
    /\ IF IsCompass THEN updateOrientation(e) ELSE p0_updateOrientation(e)

----------------------------------------------------------------------------
(* The component *)

Init ==
    /\ component \in {"Compass", "part_000"}
    /\ geolocation \in BOOLEAN
    /\ requestPermission \in BOOLEAN
    /\ initialized = FALSE
    /\ activations = 0
    /\ initPc = "idle"
    /\ _lat = None
    /\ _lon = None
    /\ name = DefaultName
    /\ distance = NoText
    /\ compassAvailable = FALSE
    /\ arrowRotation = 0
    /\ listener = FALSE
    /\ event = None
    /\ gcpPending = 0
    /\ watches = 0
    /\ permPending = 0
    /\ nGetCurrent = 0
    /\ nPermReq = 0
    /\ nAddListener = 0
    /\ rawAtan = 0
    /\ rawHeading = 0
    /\ computed = None

PositionStep ==
    \/ \E p \in Positions : firstFix(p)
    \/ \E p \in Positions : watchUpdate(p)

PositionErrorStep ==
    \/ \E msg \in Messages : firstFixError(msg)
    \/ \E msg \in Messages : watchError(msg)

OrientationStep == \E e \in Events : orientationEvent(e)

Next ==
    \/ init /\ UNCHANGED geometryVars
    \/ initResume /\ UNCHANGED geometryVars
    \/ initCatch /\ UNCHANGED geometryVars
    \/ p0_init /\ UNCHANGED geometryVars
    \/ PositionStep /\ UNCHANGED geometryVars
    \/ PositionErrorStep /\ UNCHANGED geometryVars
    \/ permissionGranted /\ UNCHANGED geometryVars
    \/ permissionRefused /\ UNCHANGED geometryVars
    \/ OrientationStep /\ UNCHANGED geometryVars

Spec == Init /\ [][Next]_vars

----------------------------------------------------------------------------
(* The geometry alone: every raw arctangent result and every heading in     *)
(* [0,360), run through steps 3 to 5 of updateOrientation.                   *)

GeometryInit ==
    /\ rawAtan \in -180..180
    /\ rawHeading \in 0..359
    /\ computed = None
    /\ component = "Compass"
    /\ geolocation = TRUE
    /\ requestPermission = FALSE
    /\ initialized = FALSE
    /\ activations = 0
    /\ initPc = "idle"
    /\ _lat = None
    /\ _lon = None
    /\ name = DefaultName
    /\ distance = NoText
    /\ compassAvailable = FALSE
    /\ arrowRotation = 0
    /\ listener = FALSE
    /\ event = None
    /\ gcpPending = 0
    /\ watches = 0
    /\ permPending = 0
    /\ nGetCurrent = 0
    /\ nPermReq = 0
    /\ nAddListener = 0

computeRotation ==
    /\ computed = None
    /\ computed' = <<normBearing(rawAtan),
                     relativeBearing(normBearing(rawAtan), rawHeading)>>
    /\ UNCHANGED <<rawAtan, rawHeading>>
    /\ UNCHANGED componentVars

GeometryNext == computeRotation

GeometrySpec == GeometryInit /\ [][GeometryNext]_vars

----------------------------------------------------------------------------
(* Vocabulary of the properties *)

PositionKnown == _lat # None /\ _lon # None

\* the bearing of the target from the stored position
StoredBearing == bearingFromNorth(_lat[1], _lon[1])

\* rotation for bearing b and heading h, by arithmetic modulo 360: the value
\* in (-180, 180] congruent to b - h, or -180 when b - h is exactly -180
Turn(b, h) ==
    LET m == (b - h) % 360
    IN  IF b - h = -180 THEN -180 ELSE IF m > 180 THEN m - 360 ELSE m

\* the sample has an absolute, non-null alpha
HasAbsoluteAlpha(e) == e.absolute /\ e.alpha # None

\* the sample has a non-zero compass-heading field
HasCompassHeading(e) ==
    e.webkitCompassHeading # None /\ e.webkitCompassHeading # Some(0)

\* the sample carries a heading the mounted version can use
Usable(e) ==
    HasAbsoluteAlpha(e) \/ (IsCompass /\ HasCompassHeading(e))

\* the heading of a usable sample
UsedHeading(e) ==
    IF HasAbsoluteAlpha(e) THEN e.alpha[1] ELSE e.webkitCompassHeading[1]

\* a degraded sample: no absolute alpha and no compass-heading field
Degraded(e) == ~HasAbsoluteAlpha(e) /\ e.webkitCompassHeading = None

\* the heading is inside [0,360)
Normalized(h) == 0 <= h /\ h < 360

\* orientation acquisition was initiated: the permission was requested where
\* it is required, the listener was registered where it is not
OrientationInitiated ==
    IF requestPermission THEN nPermReq > 0 ELSE nAddListener > 0

\* this step is a run of updateOrientation, on the sample event'
HandlesSample == event' # None /\ orientationEvent(event'[1])

----------------------------------------------------------------------------
(* C1 *)

\* C1, as claimed: whenever Compass.vue handles a sample that carries both a
\* non-zero compass-heading field and an absolute, non-null alpha, the
\* rotation it writes is computed from the compass-heading value.
C1_CompassHeadingPreferred ==
    [][LET e == event'[1] IN
         (IsCompass /\ HandlesSample /\ PositionKnown
            /\ HasCompassHeading(e) /\ HasAbsoluteAlpha(e)
            /\ Normalized(e.webkitCompassHeading[1]) /\ Normalized(e.alpha[1]))
         => arrowRotation' = Turn(StoredBearing, e.webkitCompassHeading[1])]_vars

\* C1, amended: whenever Compass.vue handles a sample with an absolute,
\* non-null alpha, the rotation it writes is computed from alpha, whether or
\* not a compass-heading field is present; the compass-heading value is used
\* only when alpha is not usable.  (Headings in [0,360), where the single
\* wrap is exact.)
C1_AlphaOverridesCompassHeading ==
    [][LET e == event'[1] IN
         (IsCompass /\ HandlesSample /\ PositionKnown)
         => /\ (HasAbsoluteAlpha(e) /\ Normalized(e.alpha[1]))
                => arrowRotation' = Turn(StoredBearing, e.alpha[1])
            /\ (~HasAbsoluteAlpha(e) /\ HasCompassHeading(e)
                  /\ Normalized(e.webkitCompassHeading[1]))
                => arrowRotation' = Turn(StoredBearing, e.webkitCompassHeading[1])]_vars

\* Compass.vue has handled a sample carrying both fields with different
\* values, and the rotation is the one alpha gives.
C1_Witness ==
    /\ IsCompass /\ PositionKnown /\ compassAvailable
    /\ event # None
    /\ HasCompassHeading(event[1]) /\ HasAbsoluteAlpha(event[1])
    /\ event[1].alpha = Some(0)
    /\ event[1].webkitCompassHeading = Some(270)
    /\ arrowRotation = Turn(StoredBearing, 0)
    /\ arrowRotation # Turn(StoredBearing, 270)

----------------------------------------------------------------------------
(* C2 *)

\* C2, as claimed: compassAvailable is true if and only if the orientation
\* listener is registered and a position sample has been delivered.
C2_AvailableIffActiveAndPositioned ==
    compassAvailable <=> (listener /\ PositionKnown)

\* C2, amended: compassAvailable is true only if the orientation listener is
\* registered and a position sample has been delivered; the converse does not
\* hold, the flag stays false until a usable heading sample is handled with a
\* position stored.
C2_AvailableOnlyIfActiveAndPositioned ==
    compassAvailable => (listener /\ PositionKnown)

\* the compass is available
C2_Witness == compassAvailable /\ listener /\ PositionKnown /\ event # None

----------------------------------------------------------------------------
(* C3 *)

\* the heading of the latest sample handled, as the component reads it
LatestHeading ==
    IF event = None THEN None
    ELSE IF IsCompass THEN alphaOf(event[1]) ELSE p0_alphaOf(event[1])

\* C3, as claimed, of Compass.vue: once a position and a heading have both
\* been delivered, the rotation equals
\* normalize(bearing(latest position) - latest heading).
C3_RotationFollowsLatestInputs ==
    (IsCompass /\ PositionKnown /\ LatestHeading # None
       /\ Normalized(LatestHeading[1]))
    => arrowRotation = Turn(StoredBearing, LatestHeading[1])

\* C3, amended: the rotation is recomputed by a usable heading sample handled
\* with a position stored, and only then: right after that sample the
\* rotation equals normalize(bearing(latest position) - its heading), and a
\* position sample leaves the rotation as it was until the next heading
\* sample.  (Headings in [0,360).)
C3_RotationRecomputedOnHeadingOnly ==
    [][/\ LET e == event'[1] IN
            (HandlesSample /\ PositionKnown /\ Usable(e)
               /\ Normalized(UsedHeading(e)))
            => arrowRotation' = Turn(StoredBearing, UsedHeading(e))
       /\ ~HandlesSample => arrowRotation' = arrowRotation]_vars

\* a position sample has moved the bearing after the latest heading sample,
\* and the rotation still shows the old bearing
C3_Witness ==
    /\ PositionKnown /\ compassAvailable
    /\ event # None /\ HasAbsoluteAlpha(event[1]) /\ event[1].alpha = Some(0)
    /\ arrowRotation # Turn(StoredBearing, 0)

----------------------------------------------------------------------------
(* C4 *)

\* C4, as claimed: when position acquisition has failed and init has run as
\* far as it can, orientation acquisition has still been initiated.
C4_PositionFailureKeepsOrientation ==
    (activations > 0 /\ name = FailName /\ MicrotaskIdle)
    => OrientationInitiated

----------------------------------------------------------------------------
(* C5 *)

\* C5, as claimed: while the first-fix request is still pending, orientation
\* acquisition has already been initiated.
C5_OrientationStartsWithoutFirstFix ==
    (activations > 0 /\ gcpPending > 0) => OrientationInitiated

----------------------------------------------------------------------------
(* C6 *)

\* C6: handling a degraded sample sets compassAvailable to false and removes
\* the listener, and while the listener is removed no step changes
\* compassAvailable or the rotation.
C6_DegradedSampleEndsSubscription ==
    [][/\ (HandlesSample /\ Degraded(event'[1]))
            => (~compassAvailable' /\ ~listener')
       /\ ~listener => UNCHANGED <<compassAvailable, arrowRotation>>]_vars

\* a degraded sample ended a subscription that had shown a rotation
C6_Witness ==
    /\ event # None /\ Degraded(event[1])
    /\ ~listener /\ ~compassAvailable
    /\ arrowRotation # 0

----------------------------------------------------------------------------
(* C7 *)

\* C7: a usable heading sample handled before any position sample leaves
\* compassAvailable false, the rotation and the text values unchanged and the
\* listener registered; handled with a position stored, it sets
\* compassAvailable and writes the rotation.
C7_HeadingBeforePosition ==
    [][LET e == event'[1] IN
         (HandlesSample /\ Usable(e))
         => IF PositionKnown
            THEN /\ compassAvailable'
                 /\ Normalized(UsedHeading(e))
                      => arrowRotation' = Turn(StoredBearing, UsedHeading(e))
            ELSE /\ ~compassAvailable'
                 /\ listener'
                 /\ UNCHANGED <<arrowRotation, name, distance>>]_vars

\* a usable heading sample was handled and no position is stored yet
C7_Witness ==
    /\ event # None /\ Usable(event[1])
    /\ ~PositionKnown /\ listener /\ ~compassAvailable
    /\ name = DefaultName

----------------------------------------------------------------------------
(* C8 *)

\* C8: for every bearing b in [0,360) and heading h in [0,360) the rotation r
\* satisfies -180 <= r <= 180 and (r + h) mod 360 = b.
C8_RotationNormalized ==
    computed # None
    => /\ -180 <= computed[2] /\ computed[2] <= 180
       /\ (computed[2] + rawHeading) % 360 = computed[1]

\* a rotation that needed the wrap upwards
C8_Witness ==
    /\ computed # None
    /\ computed[1] = 10 /\ rawHeading = 350 /\ computed[2] = 20

----------------------------------------------------------------------------
(* C9 *)

\* C9, as claimed: the exposed rotation lies in [-180,180] in every state
C9_RotationInRange == -180 <= arrowRotation /\ arrowRotation <= 180

----------------------------------------------------------------------------
(* C10 *)

\* C10, as claimed, of Compass.vue: once fail has written the failure
\* message, no position sample is stored and the distance text stays the
\* failure text.
C10_PositionFailureTerminal ==
    [][(IsCompass /\ name = FailName)
         => (distance'[1] = "fail" /\ UNCHANGED <<_lat, _lon>>)]_vars

----------------------------------------------------------------------------
(* C11 *)

\* a permission request was answered with a denial or a rejection: every
\* call of addEventListener on a platform that requires the permission
\* follows a grant, so the requests answered otherwise are the rest
Refused ==
    requestPermission /\ nPermReq - permPending - nAddListener > 0

\* the stored position changed or was written again by a position callback
PositionCallback ==
    /\ PositionKnown'
    /\ \/ firstFix(<<_lat'[1], _lon'[1]>>)
       \/ watchUpdate(<<_lat'[1], _lon'[1]>>)

\* the distance text of the stored position
StoredKmText == <<"km", dstFixed(_lat[1], _lon[1]), "">>

\* C11, as claimed: once a permission request was denied or rejected, no
\* deviceorientation listener is registered afterwards and compassAvailable
\* stays false, while a position sample still updates the distance.
C11_RefusalIsFinal ==
    [][Refused
         => /\ nAddListener' = nAddListener
            /\ ~listener'
            /\ ~compassAvailable'
            /\ PositionCallback => distance' = StoredKmText']_vars

\* C11 in sessions with a single activation, where it holds: the refusal of
\* the only request leaves the listener unregistered for good.
C11_RefusalIsFinalOnce ==
    [][(Refused /\ activations' <= 1)
         => /\ nAddListener' = nAddListener
            /\ ~listener'
            /\ ~compassAvailable'
            /\ PositionCallback => distance' = StoredKmText']_vars

----------------------------------------------------------------------------
(* C12 *)

\* C12: in Compass.vue the position subscription is opened by the success
\* callback of the one-shot fix and by nothing else: whenever it is open the
\* one request was answered and its position stored with the distance
\* written at that step, the first position stored comes from the one-shot
\* fix, and after a failed one-shot fix the subscription stays closed.
C12_WatchAfterFirstFix ==
    [][IsCompass
         => /\ watches' <= 1
            /\ watches' > 0 => (PositionKnown' /\ gcpPending' = 0)
            /\ watches' > watches
                 => (gcpPending' < gcpPending /\ distance' = StoredKmText')
            /\ (~PositionKnown /\ PositionKnown') => gcpPending' < gcpPending
            /\ (name' = FailName /\ ~PositionKnown') => watches' = 0]_vars

\* Compass.vue has opened the subscription after the first fix
C12_Witness ==
    /\ IsCompass /\ watches = 1 /\ nGetCurrent = 1 /\ gcpPending = 0
    /\ PositionKnown /\ distance = StoredKmText

----------------------------------------------------------------------------
(* C13 *)

\* this step delivers again the position that is stored and shown
DeliversStoredPosition ==
    /\ PositionKnown /\ distance = StoredKmText
    /\ \/ firstFix(<<_lat[1], _lon[1]>>)
       \/ watchUpdate(<<_lat[1], _lon[1]>>)

\* C13: a position sample identical to the one just delivered leaves the
\* distance text, the rotation and compassAvailable as they were.
C13_PositionDeliveryIdempotent ==
    [][DeliversStoredPosition
         => UNCHANGED <<distance, arrowRotation, compassAvailable,
                        _lat, _lon>>]_vars

\* a position was delivered and shown, and the subscription can deliver the
\* same sample again
C13_Witness ==
    /\ PositionKnown /\ distance = StoredKmText /\ distance[2] > 0
    /\ watches > 0
    /\ ENABLED watchUpdate(<<_lat[1], _lon[1]>>)

----------------------------------------------------------------------------
(* C14 *)

\* C14, as claimed: Compass.vue treats a sample whose compass-heading field
\* is 0 and that has no absolute alpha as a heading of 0 degrees: the compass
\* becomes available, the rotation is the normalized bearing and the
\* listener stays registered.
C14_ZeroCompassHeadingIsValid ==
    [][(IsCompass /\ HandlesSample /\ PositionKnown
          /\ event'[1].webkitCompassHeading = Some(0)
          /\ ~HasAbsoluteAlpha(event'[1]))
         => /\ compassAvailable'
            /\ listener'
            /\ arrowRotation' = Turn(StoredBearing, 0)]_vars

----------------------------------------------------------------------------
(* C15 *)

\* this step is a position error callback
PositionErrorCallback ==
    \E msg \in Messages : firstFixError(msg) \/ watchError(msg)

----------------------------------------------------------------------------
(* C16 *)

\* a degraded sample was the latest one handled, and it ended the subscription
AfterDegraded == event # None /\ Degraded(event[1]) /\ ~listener

\* C16: handling a degraded sample leaves the stored position, the text
\* values, the position requests and subscriptions and the rotation as they
\* were, and a position sample delivered afterwards still writes the
\* distance.
C16_DegradedSampleFrame ==
    [][/\ (HandlesSample /\ Degraded(event'[1]))
            => UNCHANGED <<_lat, _lon, name, distance, watches, gcpPending,
                           arrowRotation>>
       /\ (AfterDegraded /\ PositionCallback)
            => distance' = StoredKmText']_vars

\* after a degraded sample the position subscription is open and the
\* distance of the stored position is shown beside a rotation written before
C16_Witness ==
    /\ AfterDegraded /\ ~compassAvailable
    /\ PositionKnown /\ watches > 0 /\ distance = StoredKmText
    /\ arrowRotation # 0

----------------------------------------------------------------------------
(* C17 *)

\* C17: for every raw arctangent result a in [-180,180] the bearing is in
\* [0,360) and congruent to a modulo 360; it is 0 for a = 0, the value of
\* atan2(0, 0) when observer and target coincide.
C17_BearingInRange ==
    computed # None
    => /\ 0 <= computed[1] /\ computed[1] < 360
       /\ (computed[1] - rawAtan) % 360 = 0
       /\ rawAtan = 0 => computed[1] = 0

\* a negative arctangent result was brought into range
C17_Witness == computed # None /\ rawAtan = -90 /\ computed[1] = 270

----------------------------------------------------------------------------
(* C18 *)

\* C18, as claimed: the one-shot position request, the position subscription
\* and the permission request are each issued at most once.
C18_ActivatedAtMostOnce ==
    nGetCurrent <= 1 /\ watches <= 1 /\ nPermReq <= 1

----------------------------------------------------------------------------
(* C19 *)

\* C19: whenever compassAvailable is true a position is stored and the
\* latest sample handled carried a usable heading, and compassAvailable
\* turns true only in a run of updateOrientation with a position stored.
C19_AvailableImpliesPositionAndHeading ==
    [][/\ compassAvailable'
            => (PositionKnown' /\ event' # None /\ Usable(event'[1]))
       /\ (~compassAvailable /\ compassAvailable')
            => (HandlesSample /\ PositionKnown)]_vars

\* the compass is available on a compass-heading field alone
C19_Witness ==
    /\ IsCompass /\ compassAvailable /\ PositionKnown
    /\ event # None
    /\ ~HasAbsoluteAlpha(event[1]) /\ HasCompassHeading(event[1])

=============================================================================
